---- MODULE Spec2Model ----
(***************************************************************************)
(* State-machine model of the learning management system in                *)
(* src/403108393_403108411.py: the user registry, the course and grade     *)
(* store, the session tracker and the JSON persistence of                  *)
(* LearningManagementSystem, driven by the menus of main().                *)
(*                                                                         *)
(* Object identity.  Within one process exactly one User object exists     *)
(* per user id (register_user creates one under a fresh id, load_data one  *)
(* per key of the file), so a reference to a user object is modelled by    *)
(* the id of that object and users[id] holds the object's fields.          *)
(***************************************************************************)
EXTENDS Integers, Sequences, FiniteSets, TLC

(***************************************************************************)
(* Bounds of the model.                                                    *)
(***************************************************************************)
MaxCapacity == 2      \* largest capacity typed into create_course
MaxListLen == 2       \* cap on the length of enrolled_courses / courses

\* IDs are strings of decimal digits, modelled as sequences of digits.
StudentIds == { <<4, 0, 0, 0, 0, 0, 0, 0, 0>>, <<4, 0, 0, 0, 0, 0, 0, 0, 1>> }
ProfessorIds == { <<1, 0, 0, 0>>, <<1, 0, 0, 1>> }
CourseIds == { <<1, 0, 0, 0>> }
UnknownId == <<9>>
UserTypes == {"1", "2", "3"}     \* typed at "Select user type"
Passwords == { "pw" }            \* typed at registration
LoginPasswords == { "pw", "" }    \* typed at login
Names == { "ann" }
Emails == { "a@x" }
Phones == { "0912" }
CourseNames == { "math" }

\* A line typed at a numeric prompt: <<n>> when it parses as the number n,
\* <<>> when int()/float() raises ValueError.
NonNumeric == <<>>
Num(n) == <<n>>
IsNumeric(tok) == Len(tok) = 1
CapacityInputs == { NonNumeric } \cup { Num(n) : n \in (0 - 1)..MaxCapacity }
GradeValues == {0, 1}
GradeInputs == { NonNumeric } \cup { Num(n) : n \in GradeValues }

VARIABLES
  users,            \* self.users: id -> user object
  courses,          \* self.courses: course id -> course object
  logged_in_users,  \* self.logged_in_users: id -> reference to a user object
  file,             \* lms_data.json
  pc,               \* which menu loop of main() is running
  menu_user,        \* the user object the running menu was entered with
  ret,              \* the last operation, its inputs and its outcome
  stay_logins       \* history: ids that logged in with "stay logged in" and
                    \* have not logged out since

vars == <<users, courses, logged_in_users, file, pc, menu_user, ret, stay_logins>>

EmptyMap == [k \in {} |-> k]
Put(m, k, v) == [x \in (DOMAIN m) \cup {k} |-> IF x = k THEN v ELSE m[x]]
Remove(m, k) == [x \in (DOMAIN m) \ {k} |-> m[x]]
NoUser == <<>>

(***************************************************************************)
(* User, Student, Professor                                                *)
(***************************************************************************)
\* hashlib.sha256(password.encode()).hexdigest(): a digest of the password,
\* taken to be collision free on the passwords of the model.
hash_password(password) == <<"sha256", password>>

\* check_password that accepts any password.
check_password_any(user, password) == TRUE

check_password(user, password) == hash_password(password) = user.password

NewStudent(id, name, email, password, phone) ==
  [cls |-> "Student", id |-> id, name |-> name, email |-> email,
   password |-> hash_password(password), phone |-> phone,
   stay_logged_in |-> FALSE, enrolled_courses |-> <<>>]

NewProfessor(id, name, email, password, phone) ==
  [cls |-> "Professor", id |-> id, name |-> name, email |-> email,
   password |-> hash_password(password), phone |-> phone,
   stay_logged_in |-> FALSE, courses |-> <<>>]

(***************************************************************************)
(* Persistence: save_data and load_data                                    *)
(***************************************************************************)
SaveUser(user) ==
  IF user.cls = "Student"
  THEN [type |-> "Student", id |-> user.id, name |-> user.name,
        email |-> user.email, password |-> user.password,
        phone |-> user.phone, stay_logged_in |-> user.stay_logged_in,
        enrolled_courses |-> user.enrolled_courses]
  ELSE [type |-> "Professor", id |-> user.id, name |-> user.name,
        email |-> user.email, password |-> user.password,
        phone |-> user.phone, stay_logged_in |-> user.stay_logged_in,
        courses |-> user.courses]

\* The JSON document save_data writes: every user, and no course.
save_data(us) ==
  [exists |-> TRUE,
   data |-> [users |-> [uid \in DOMAIN us |-> SaveUser(us[uid])],
             courses |-> EmptyMap]]

NoFile == [exists |-> FALSE, data |-> [users |-> EmptyMap, courses |-> EmptyMap]]

\* LoadUser without "user.password = user_data['password']": the user keeps
\* the hash of the empty password it was constructed with.
LoadUser_blank_password(user_data) ==
  IF user_data.type = "Student"
  THEN [NewStudent(user_data.id, user_data.name, user_data.email, "",
                   user_data.phone)
          EXCEPT !.stay_logged_in = user_data.stay_logged_in,
                 !.enrolled_courses = user_data.enrolled_courses]
  ELSE [NewProfessor(user_data.id, user_data.name, user_data.email, "",
                     user_data.phone)
          EXCEPT !.stay_logged_in = user_data.stay_logged_in,
                 !.courses = user_data.courses]

LoadUser(user_data) ==
  IF user_data.type = "Student"
  THEN [NewStudent(user_data.id, user_data.name, user_data.email, "",
                   user_data.phone)
          EXCEPT !.password = user_data.password,
                 !.stay_logged_in = user_data.stay_logged_in,
                 !.enrolled_courses = user_data.enrolled_courses]
  ELSE [NewProfessor(user_data.id, user_data.name, user_data.email, "",
                     user_data.phone)
          EXCEPT !.password = user_data.password,
                 !.stay_logged_in = user_data.stay_logged_in,
                 !.courses = user_data.courses]

\* load_data without the last two lines: no session is restored.
load_data_no_sessions(f) ==
  IF ~f.exists
  THEN [users |-> EmptyMap, logged_in_users |-> EmptyMap]
  ELSE [users |-> [uid \in DOMAIN f.data.users |-> LoadUser(f.data.users[uid])],
        logged_in_users |-> EmptyMap]

\* load_data on a freshly constructed system: the registry and the sessions.
load_data(f) ==
  IF ~f.exists
  THEN [users |-> EmptyMap, logged_in_users |-> EmptyMap]
  ELSE LET loaded == [uid \in DOMAIN f.data.users |-> LoadUser(f.data.users[uid])]
       IN [users |-> loaded,
           logged_in_users |->
             [uid \in {u \in DOMAIN loaded : loaded[u].stay_logged_in} |-> uid]]

(***************************************************************************)
(* Initial state: LearningManagementSystem() with no lms_data.json.        *)
(***************************************************************************)
Ret(op, out) == [op |-> op, out |-> out, view |-> <<>>]

Init ==
  /\ users = EmptyMap
  /\ courses = EmptyMap
  /\ logged_in_users = EmptyMap
  /\ file = NoFile
  /\ pc = "main"
  /\ menu_user = NoUser
  /\ ret = Ret("init", "ok")
  /\ stay_logins = {}

(***************************************************************************)
(* register_user                                                           *)
(***************************************************************************)
\* generate_student_id without the test "not in self.users".
generate_student_id_unchecked == StudentIds

\* generate_student_id / generate_professor_id: the candidates the retry
\* loop can return, those not yet a key of self.users.
generate_student_id == { id \in StudentIds : id \notin DOMAIN users }
generate_professor_id == { id \in ProfessorIds : id \notin DOMAIN users }

\* register_user with "else" in place of "elif user_type == '2'": every type
\* other than "1" registers a professor.
register_user_else_professor(user_type, name, email, password, phone) ==
  /\ pc = "main"
  /\ \/ /\ user_type = "1"
        /\ \E user_id \in generate_student_id :
             /\ users' = Put(users, user_id,
                             NewStudent(user_id, name, email, password, phone))
             /\ file' = save_data(users')
             /\ ret' = Ret("register", "ok")
     \/ /\ user_type # "1"
        /\ \E user_id \in generate_professor_id :
             /\ users' = Put(users, user_id,
                             NewProfessor(user_id, name, email, password, phone))
             /\ file' = save_data(users')
             /\ ret' = Ret("register", "ok")
  /\ UNCHANGED <<courses, logged_in_users, pc, menu_user, stay_logins>>

register_user(user_type, name, email, password, phone) ==
  /\ pc = "main"
  /\ \/ /\ user_type = "1"
        /\ \E user_id \in generate_student_id :
             /\ users' = Put(users, user_id,
                             NewStudent(user_id, name, email, password, phone))
             /\ file' = save_data(users')
             /\ ret' = Ret("register", "ok")
     \/ /\ user_type = "2"
        /\ \E user_id \in generate_professor_id :
             /\ users' = Put(users, user_id,
                             NewProfessor(user_id, name, email, password, phone))
             /\ file' = save_data(users')
             /\ ret' = Ret("register", "ok")
     \/ /\ user_type \notin {"1", "2"}
        /\ ret' = Ret("register", "InvalidInput")
        /\ UNCHANGED <<users, file>>
  /\ UNCHANGED <<courses, logged_in_users, pc, menu_user, stay_logins>>

(***************************************************************************)
(* login, then main() entering the menu of the returned user               *)
(***************************************************************************)
MenuOf(user) == IF user.cls = "Professor" THEN "professor_menu" ELSE "student_menu"

login(id, password, stay_logged_in) ==
  /\ pc = "main"
  /\ IF id \in DOMAIN logged_in_users
     THEN \* returned before the password prompt
          /\ ret' = Ret("login", "session")
          /\ menu_user' = logged_in_users[id]
          /\ pc' = MenuOf(users[logged_in_users[id]])
          /\ UNCHANGED <<users, logged_in_users, file, stay_logins>>
     ELSE IF id \in DOMAIN users /\ check_password(users[id], password)
     THEN /\ users' = [users EXCEPT ![id].stay_logged_in = stay_logged_in]
          /\ logged_in_users' = IF stay_logged_in
                                THEN Put(logged_in_users, id, id)
                                ELSE logged_in_users
          /\ file' = save_data(users')
          /\ ret' = Ret("login", "ok")
          /\ menu_user' = id
          /\ pc' = MenuOf(users[id])
          /\ stay_logins' = IF stay_logged_in
                            THEN stay_logins \cup {id}
                            ELSE stay_logins
     ELSE /\ ret' = Ret("login", "InvalidCredentials")
          /\ UNCHANGED <<users, logged_in_users, file, pc, menu_user, stay_logins>>
  /\ UNCHANGED courses

(***************************************************************************)
(* logout, called from either menu with the id of the menu's user          *)
(***************************************************************************)
\* logout whose first statement is "stay_logged_in = not stay_logged_in".
logout_effect_toggles(st, user_id) ==
  IF user_id \in DOMAIN st.users
  THEN LET us == [st.users EXCEPT ![user_id].stay_logged_in = ~@]
       IN [users |-> us,
           logged_in_users |-> IF user_id \in DOMAIN st.logged_in_users
                               THEN Remove(st.logged_in_users, user_id)
                               ELSE st.logged_in_users,
           file |-> save_data(us)]
  ELSE st

\* logout without "del self.logged_in_users[user_id]".
logout_effect_keeps_session(st, user_id) ==
  IF user_id \in DOMAIN st.users
  THEN LET us == [st.users EXCEPT ![user_id].stay_logged_in = FALSE]
       IN [users |-> us,
           logged_in_users |-> st.logged_in_users,
           file |-> save_data(us)]
  ELSE st

\* What logout(user_id) does to the registry, the sessions and the file.
logout_effect(st, user_id) ==
  IF user_id \in DOMAIN st.users
  THEN LET us == [st.users EXCEPT ![user_id].stay_logged_in = FALSE]
       IN [users |-> us,
           logged_in_users |-> IF user_id \in DOMAIN st.logged_in_users
                               THEN Remove(st.logged_in_users, user_id)
                               ELSE st.logged_in_users,
           file |-> save_data(us)]
  ELSE st

\* student_menu choice 4 and professor_menu choice 6: logout, then return.
logout ==
  /\ pc \in {"student_menu", "professor_menu"}
  /\ LET st == logout_effect([users |-> users,
                              logged_in_users |-> logged_in_users,
                              file |-> file], menu_user)
     IN /\ users' = st.users
        /\ logged_in_users' = st.logged_in_users
        /\ file' = st.file
  /\ stay_logins' = stay_logins \ {menu_user}
  /\ ret' = Ret("logout", "ok")
  /\ pc' = "main"
  /\ menu_user' = NoUser
  /\ UNCHANGED courses

(***************************************************************************)
(* Course                                                                  *)
(***************************************************************************)
\* The keys of Course.grade_components, in insertion order.
grade_components == <<"Quiz 1", "Midterm", "Quiz 2", "Final", "Assignments">>
ComponentNames == { grade_components[i] : i \in 1..Len(grade_components) }

NewCourse(id, name, professor, capacity) ==
  [id |-> id, name |-> name, professor |-> professor, capacity |-> capacity,
   students |-> <<>>, student_grades |-> EmptyMap, is_grades_visible |-> FALSE]

\* add_student with the capacity test off by one (<= for <).
add_student_off_by_one(course, student) ==
  IF Len(course.students) <= course.capacity
  THEN [course |-> [course EXCEPT
                      !.students = Append(@, student.id),
                      !.student_grades =
                        Put(@, student.id, [comp \in ComponentNames |-> 0])],
        student |-> [student EXCEPT !.enrolled_courses = Append(@, course.id)],
        out |-> "ok"]
  ELSE [course |-> course, student |-> student, out |-> "CourseFull"]

\* add_student that keeps the grade record a student already has.
add_student_keeps_record(course, student) ==
  IF Len(course.students) < course.capacity
  THEN [course |-> [course EXCEPT
                      !.students = Append(@, student.id),
                      !.student_grades =
                        IF student.id \in DOMAIN @ THEN @
                        ELSE Put(@, student.id, [comp \in ComponentNames |-> 0])],
        student |-> [student EXCEPT !.enrolled_courses = Append(@, course.id)],
        out |-> "ok"]
  ELSE [course |-> course, student |-> student, out |-> "CourseFull"]

\* Course.add_student(student): the course and the student after the call,
\* and which of the two messages was printed.
add_student(course, student) ==
  IF Len(course.students) < course.capacity
  THEN [course |-> [course EXCEPT
                      !.students = Append(@, student.id),
                      !.student_grades =
                        Put(@, student.id, [comp \in ComponentNames |-> 0])],
        student |-> [student EXCEPT !.enrolled_courses = Append(@, course.id)],
        out |-> "ok"]
  ELSE [course |-> course, student |-> student, out |-> "CourseFull"]

(***************************************************************************)
(* student_menu, choice 2: enroll                                          *)
(***************************************************************************)
enroll(course_id) ==
  /\ pc = "student_menu"
  /\ Len(users[menu_user].enrolled_courses) < MaxListLen
  /\ IF course_id \in DOMAIN courses
     THEN LET r == add_student(courses[course_id], users[menu_user])
          IN /\ courses' = [courses EXCEPT ![course_id] = r.course]
             /\ users' = [users EXCEPT ![menu_user] = r.student]
             /\ ret' = Ret("enroll", r.out)
     ELSE /\ ret' = Ret("enroll", "NotFound")
          /\ UNCHANGED <<users, courses>>
  /\ UNCHANGED <<logged_in_users, file, pc, menu_user, stay_logins>>

(***************************************************************************)
(* student_menu, choice 3: view_student_grades                             *)
(***************************************************************************)
\* sum(grades.values()): the values added in the order of the dict's keys.
RECURSIVE SumFrom(_, _)
SumFrom(grades, k) ==
  IF k > Len(grade_components) THEN 0
  ELSE (IF grade_components[k] \in DOMAIN grades
        THEN grades[grade_components[k]] ELSE 0) + SumFrom(grades, k + 1)

\* ViewEntry without the test of course.is_grades_visible.
ViewEntry_ignores_visibility(student, course_id) ==
  IF course_id \in DOMAIN courses
  THEN LET course == courses[course_id]
           grades == IF student.id \in DOMAIN course.student_grades
                     THEN course.student_grades[student.id]
                     ELSE EmptyMap
       IN [course |-> course_id, kind |-> "grades", scores |-> grades,
           total |-> SumFrom(grades, 1)]
  ELSE [course |-> course_id, kind |-> "gone", scores |-> EmptyMap, total |-> 0]

\* What view_student_grades prints for one entry of student.enrolled_courses.
ViewEntry(student, course_id) ==
  IF course_id \in DOMAIN courses
  THEN LET course == courses[course_id]
       IN IF course.is_grades_visible
          THEN LET grades == IF student.id \in DOMAIN course.student_grades
                             THEN course.student_grades[student.id]
                             ELSE EmptyMap
               IN [course |-> course_id, kind |-> "grades", scores |-> grades,
                   total |-> SumFrom(grades, 1)]
          ELSE [course |-> course_id, kind |-> "Hidden", scores |-> EmptyMap,
                total |-> 0]
  ELSE [course |-> course_id, kind |-> "gone", scores |-> EmptyMap, total |-> 0]

view_student_grades(student) ==
  [i \in 1..Len(student.enrolled_courses) |->
     ViewEntry(student, student.enrolled_courses[i])]

ViewGrades ==
  /\ pc = "student_menu"
  /\ ret' = [Ret("view", "ok")
               EXCEPT !.view = view_student_grades(users[menu_user])]
  /\ UNCHANGED <<users, courses, logged_in_users, file, pc, menu_user, stay_logins>>

(***************************************************************************)
(* professor_menu, choice 1: create_course                                 *)
(***************************************************************************)
\* The ids the retry loop of create_course can end with.
generate_course_id == { id \in CourseIds : id \notin DOMAIN courses }

create_course(name, capacity_input) ==
  /\ pc = "professor_menu"
  /\ Len(users[menu_user].courses) < MaxListLen
  /\ IF ~IsNumeric(capacity_input)
     THEN /\ ret' = Ret("create_course", "InvalidInput")
          /\ UNCHANGED <<users, courses, file>>
     ELSE \E course_id \in generate_course_id :
            /\ courses' = Put(courses, course_id,
                              NewCourse(course_id, name, menu_user, capacity_input[1]))
            /\ users' = [users EXCEPT ![menu_user].courses = Append(@, course_id)]
            /\ file' = save_data(users')
            /\ ret' = Ret("create_course", "ok")
  /\ UNCHANGED <<logged_in_users, pc, menu_user, stay_logins>>

(***************************************************************************)
(* professor_menu, choice 3: manage_grades                                 *)
(***************************************************************************)
\* The lines typed at the grade prompts: script[i][k] answers the prompt for
\* component k of the i-th entry of course.students.
\* EnterComponents with "grade = 0" stored in the ValueError handler.
RECURSIVE EnterComponents_zero_on_invalid(_, _, _, _)
EnterComponents_zero_on_invalid(grades, student_id, answers, k) ==
  IF k > Len(grade_components) THEN grades
  ELSE EnterComponents_zero_on_invalid(
         [grades EXCEPT ![student_id][grade_components[k]] =
            IF IsNumeric(answers[k]) THEN answers[k][1] ELSE 0],
         student_id, answers, k + 1)

RECURSIVE EnterComponents(_, _, _, _)
EnterComponents(grades, student_id, answers, k) ==
  IF k > Len(grade_components) THEN grades
  ELSE EnterComponents(
         IF IsNumeric(answers[k])
         THEN [grades EXCEPT ![student_id][grade_components[k]] = answers[k][1]]
         ELSE grades,
         student_id, answers, k + 1)

RECURSIVE EnterGrades(_, _, _, _)
EnterGrades(grades, students, script, i) ==
  IF i > Len(students) THEN grades
  ELSE EnterGrades(EnterComponents(grades, students[i], script[i], 1),
                   students, script, i + 1)

\* The scripts of the model: every prompt answered with the same line, or one
\* prompt answered with a number and the others with a line that is no number.
AllAnswer(n, tok) == [i \in 1..n |-> [k \in 1..Len(grade_components) |-> tok]]
OneAnswer(n, i0, k0, tok) ==
  [i \in 1..n |-> [k \in 1..Len(grade_components) |->
                     IF i = i0 /\ k = k0 THEN tok ELSE NonNumeric]]
ScriptedComponents == {2, 5}
GradeScripts(n) ==
  { AllAnswer(n, NonNumeric) }
    \cup { OneAnswer(n, i0, k0, tok) :
             i0 \in 1..n, k0 \in ScriptedComponents, tok \in GradeInputs \ {NonNumeric} }

manage_grades(course_id, choice) ==
  /\ pc = "professor_menu"
  /\ IF course_id \notin { users[menu_user].courses[i] :
                             i \in 1..Len(users[menu_user].courses) }
     THEN /\ ret' = Ret("manage_grades", "InvalidCourse")
          /\ UNCHANGED <<courses, file, pc, menu_user>>
     ELSE IF course_id \notin DOMAIN courses
     THEN \* self.courses[course_id] raises KeyError, which nothing catches
          /\ ret' = Ret("manage_grades", "KeyError")
          /\ pc' = "crashed"
          /\ menu_user' = NoUser
          /\ UNCHANGED <<courses, file>>
     ELSE IF choice = "1"
     THEN \E script \in GradeScripts(Len(courses[course_id].students)) :
            /\ courses' = [courses EXCEPT ![course_id].student_grades =
                             EnterGrades(@, courses[course_id].students, script, 1)]
            /\ file' = save_data(users)
            /\ ret' = Ret("manage_grades", "ok")
            /\ UNCHANGED <<pc, menu_user>>
     ELSE IF choice = "2"
     THEN /\ courses' = [courses EXCEPT ![course_id].is_grades_visible = ~@]
          /\ file' = save_data(users)
          /\ ret' = Ret("manage_grades", "ok")
          /\ UNCHANGED <<pc, menu_user>>
     ELSE /\ ret' = Ret("manage_grades", "InvalidOption")
          /\ UNCHANGED <<courses, file, pc, menu_user>>
  /\ UNCHANGED <<users, logged_in_users, stay_logins>>

(***************************************************************************)
(* professor_menu, choice 5: view_class_statistics                         *)
(***************************************************************************)
\* The data frame both reports are built from: one row per graded student.
GradeTable(course) == course.student_grades

view_class_statistics(course_id) ==
  /\ pc = "professor_menu"
  /\ IF course_id \notin { users[menu_user].courses[i] :
                             i \in 1..Len(users[menu_user].courses) }
     THEN \* the method ends without printing anything
          /\ ret' = Ret("view_class_statistics", "none")
          /\ UNCHANGED <<pc, menu_user>>
     ELSE IF course_id \notin DOMAIN courses
     THEN \* self.courses[course_id] raises KeyError, which nothing catches
          /\ ret' = Ret("view_class_statistics", "KeyError")
          /\ pc' = "crashed"
          /\ menu_user' = NoUser
     ELSE IF DOMAIN courses[course_id].student_grades = {}
     THEN /\ ret' = Ret("view_class_statistics", "NoGrades")
          /\ UNCHANGED <<pc, menu_user>>
     ELSE /\ ret' = [Ret("view_class_statistics", "ok")
                       EXCEPT !.view = GradeTable(courses[course_id])]
          /\ UNCHANGED <<pc, menu_user>>
  /\ UNCHANGED <<users, courses, logged_in_users, file, stay_logins>>

(***************************************************************************)
(* professor_menu, choice 4: export_grades                                 *)
(***************************************************************************)
\* The rows of grades_<course_id>.csv: the scores and their sum.
ExportTable(course) ==
  [sid \in DOMAIN course.student_grades |->
     [scores |-> course.student_grades[sid],
      Total |-> SumFrom(course.student_grades[sid], 1)]]

export_grades(course_id) ==
  /\ pc = "professor_menu"
  /\ IF course_id \notin { users[menu_user].courses[i] :
                             i \in 1..Len(users[menu_user].courses) }
     THEN /\ ret' = Ret("export_grades", "InvalidCourse")
          /\ UNCHANGED <<pc, menu_user>>
     ELSE IF course_id \notin DOMAIN courses
     THEN \* self.courses[course_id] raises KeyError, which nothing catches
          /\ ret' = Ret("export_grades", "KeyError")
          /\ pc' = "crashed"
          /\ menu_user' = NoUser
     ELSE IF DOMAIN courses[course_id].student_grades = {}
     THEN /\ ret' = Ret("export_grades", "NoGrades")
          /\ UNCHANGED <<pc, menu_user>>
     ELSE /\ ret' = [Ret("export_grades", "ok")
                       EXCEPT !.view = ExportTable(courses[course_id])]
          /\ UNCHANGED <<pc, menu_user>>
  /\ UNCHANGED <<users, courses, logged_in_users, file, stay_logins>>

(***************************************************************************)
(* The process ends (Exit, an interrupt or an uncaught exception) and a    *)
(* new one is started: LearningManagementSystem() runs load_data.          *)
(***************************************************************************)
Restart ==
  /\ users' = load_data(file).users
  /\ logged_in_users' = load_data(file).logged_in_users
  /\ courses' = EmptyMap
  /\ pc' = "main"
  /\ menu_user' = NoUser
  /\ ret' = Ret("restart", "ok")
  /\ UNCHANGED <<file, stay_logins>>

(***************************************************************************)
(* The retry loops of generate_student_id, generate_professor_id and        *)
(* create_course with one random draw per step.  While a loop runs, pc      *)
(* names it and ret.view holds the lines typed before it and the last       *)
(* candidate drawn.                                                         *)
(***************************************************************************)
NoCandidate == <<>>

\* The test of the loops with "in" for "not in".
IdAccepted_inverted(candidate, used) == candidate \in used

\* "if student_id not in self.users: return student_id"
IdAccepted(candidate, used) == candidate \notin used

register_user_begin(user_type, name, email, password, phone) ==
  /\ pc = "main"
  /\ IF user_type \in {"1", "2"}
     THEN /\ pc' = IF user_type = "1" THEN "generate_student_id"
                                      ELSE "generate_professor_id"
          /\ ret' = [op |-> pc', out |-> "start",
                     view |-> [name |-> name, email |-> email,
                               password |-> password, phone |-> phone,
                               candidate |-> NoCandidate]]
     ELSE /\ ret' = Ret("register", "InvalidInput")
          /\ pc' = pc
  /\ UNCHANGED <<users, courses, logged_in_users, file, menu_user, stay_logins>>

try_student_id(candidate) ==
  /\ pc = "generate_student_id"
  /\ IF IdAccepted(candidate, DOMAIN users)
     THEN /\ users' = Put(users, candidate,
                          NewStudent(candidate, ret.view.name, ret.view.email,
                                     ret.view.password, ret.view.phone))
          /\ file' = save_data(users')
          /\ ret' = Ret("register", "ok")
          /\ pc' = "main"
     ELSE /\ ret' = [ret EXCEPT !.out = "collision", !.view.candidate = candidate]
          /\ UNCHANGED <<users, file, pc>>
  /\ UNCHANGED <<courses, logged_in_users, menu_user, stay_logins>>

try_professor_id(candidate) ==
  /\ pc = "generate_professor_id"
  /\ IF IdAccepted(candidate, DOMAIN users)
     THEN /\ users' = Put(users, candidate,
                          NewProfessor(candidate, ret.view.name, ret.view.email,
                                       ret.view.password, ret.view.phone))
          /\ file' = save_data(users')
          /\ ret' = Ret("register", "ok")
          /\ pc' = "main"
     ELSE /\ ret' = [ret EXCEPT !.out = "collision", !.view.candidate = candidate]
          /\ UNCHANGED <<users, file, pc>>
  /\ UNCHANGED <<courses, logged_in_users, menu_user, stay_logins>>

create_course_begin(name, capacity_input) ==
  /\ pc = "professor_menu"
  /\ Len(users[menu_user].courses) < MaxListLen
  /\ IF ~IsNumeric(capacity_input)
     THEN /\ ret' = Ret("create_course", "InvalidInput")
          /\ pc' = pc
     ELSE /\ pc' = "generate_course_id"
          /\ ret' = [op |-> pc', out |-> "start",
                     view |-> [name |-> name, capacity |-> capacity_input[1],
                               candidate |-> NoCandidate]]
  /\ UNCHANGED <<users, courses, logged_in_users, file, menu_user, stay_logins>>

try_course_id(candidate) ==
  /\ pc = "generate_course_id"
  /\ IF IdAccepted(candidate, DOMAIN courses)
     THEN /\ courses' = Put(courses, candidate,
                            NewCourse(candidate, ret.view.name, menu_user,
                                      ret.view.capacity))
          /\ users' = [users EXCEPT ![menu_user].courses = Append(@, candidate)]
          /\ file' = save_data(users')
          /\ ret' = Ret("create_course", "ok")
          /\ pc' = "professor_menu"
     ELSE /\ ret' = [ret EXCEPT !.out = "collision", !.view.candidate = candidate]
          /\ UNCHANGED <<users, courses, file, pc>>
  /\ UNCHANGED <<logged_in_users, menu_user, stay_logins>>

NextIdGen ==
  \/ \E user_type \in UserTypes, name \in Names, email \in Emails,
        password \in Passwords, phone \in Phones :
       register_user_begin(user_type, name, email, password, phone)
  \/ \E candidate \in StudentIds : try_student_id(candidate)
  \/ \E candidate \in ProfessorIds : try_professor_id(candidate)
  \/ \E id \in StudentIds \cup ProfessorIds \cup {UnknownId},
        password \in LoginPasswords, stay_logged_in \in BOOLEAN :
       login(id, password, stay_logged_in)
  \/ logout
  \/ \E name \in CourseNames, capacity_input \in CapacityInputs :
       create_course_begin(name, capacity_input)
  \/ \E candidate \in CourseIds : try_course_id(candidate)
  \/ Restart

\* random.randint yields every value of its range with the same positive
\* probability at every draw, so a candidate that can be drawn again and
\* again is drawn at some time.
SpecIdGen ==
  /\ Init
  /\ [][NextIdGen]_vars
  /\ \A candidate \in StudentIds : WF_vars(try_student_id(candidate))
  /\ \A candidate \in ProfessorIds : WF_vars(try_professor_id(candidate))
  /\ \A candidate \in CourseIds : WF_vars(try_course_id(candidate))

(***************************************************************************)
(* Claims                                                                  *)
(***************************************************************************)
EnrollInputs == CourseIds \cup {UnknownId}
StudentsOf(course) == { course.students[i] : i \in 1..Len(course.students) }
NoDuplicates(seq) == \A i, j \in 1..Len(seq) : seq[i] = seq[j] => i = j

\* C1: in every reachable state every course of the course store has at most
\* as many enrolled students as its capacity, for every capacity that
\* create_course accepts.
C1_EnrolledWithinCapacity ==
  \A c \in DOMAIN courses : Len(courses[c].students) <= courses[c].capacity

\* C2: an enroll call on a course whose enrolled count equals its capacity
\* reports CourseFull and changes neither the course (enrolled list, grade
\* records, visibility flag) nor the student's enrolled-course list, nor
\* anything else of the registry, the sessions or the file.
C2_FullCourseEnrollUnchanged ==
  [][\A c \in EnrollInputs :
       (/\ ret'.op = "enroll"
        /\ enroll(c)
        /\ c \in DOMAIN courses
        /\ Len(courses[c].students) = courses[c].capacity)
       => /\ ret'.out = "CourseFull"
          /\ courses' = courses
          /\ users' = users
          /\ logged_in_users' = logged_in_users
          /\ file' = file]_vars

C2_Witness ==
  /\ ret.op = "enroll"
  /\ ret.out = "CourseFull"
  /\ \E c \in DOMAIN courses :
       /\ courses[c].capacity >= 1
       /\ Len(courses[c].students) = courses[c].capacity

\* C3: every student in a course's enrolled list has a grade record in that
\* course whose component names are exactly the declared components, and
\* right after a successful enroll every score of the enrolling student's
\* record in that course is 0.
C3_GradeRecordPerEnrolledStudent ==
  /\ \A c \in DOMAIN courses : \A sid \in StudentsOf(courses[c]) :
       /\ sid \in DOMAIN courses[c].student_grades
       /\ DOMAIN courses[c].student_grades[sid] = ComponentNames
  /\ (ret.op = "enroll" /\ ret.out = "ok") =>
       LET mine == users[menu_user].enrolled_courses
           c == mine[Len(mine)]
       IN /\ c \in DOMAIN courses
          /\ menu_user \in DOMAIN courses[c].student_grades
          /\ \A comp \in ComponentNames :
               courses[c].student_grades[menu_user][comp] = 0

C3_Witness ==
  /\ ret.op = "enroll"
  /\ ret.out = "ok"
  /\ \E c \in DOMAIN courses :
       /\ Len(courses[c].students) = 2
       /\ courses[c].students[2] = menu_user
       /\ \E sid \in StudentsOf(courses[c]), comp \in ComponentNames :
            courses[c].student_grades[sid][comp] # 0

\* C4: no student appears more than once in a course's enrolled list and no
\* course id appears more than once in a student's enrolled-course list.
C4_EnrollAtMostOnce ==
  /\ \A c \in DOMAIN courses : NoDuplicates(courses[c].students)
  /\ \A id \in DOMAIN users :
       users[id].cls = "Student" => NoDuplicates(users[id].enrolled_courses)

\* C5: after every mutating core operation returns (register, login, logout,
\* create_course, enroll, manage_grades) the user records of the file are the
\* users of the registry: the same ids and, per user, the same role, fields,
\* stay_logged_in flag and role-specific course list.
MutatingOps ==
  {"register", "login", "logout", "create_course", "enroll", "manage_grades"}
PersistedAs(rec, user) ==
  /\ rec.type = user.cls
  /\ rec.id = user.id
  /\ rec.name = user.name
  /\ rec.email = user.email
  /\ rec.phone = user.phone
  /\ rec.password = user.password
  /\ rec.stay_logged_in = user.stay_logged_in
  /\ IF user.cls = "Student"
     THEN rec.enrolled_courses = user.enrolled_courses
     ELSE rec.courses = user.courses
C5_PersistedEqualsRegistry ==
  ret.op \in MutatingOps =>
    /\ DOMAIN file.data.users = DOMAIN users
    /\ \A id \in DOMAIN users : PersistedAs(file.data.users[id], users[id])

\* C6: saving the registry and loading the result into a fresh system gives
\* a registry with the same user ids and, per user, the same role, id, name,
\* email, phone, password hash, stay_logged_in flag and course list.
C6_RegistryRoundTrip == load_data(save_data(users)).users = users

C6_Witness ==
  /\ ret.op = "restart"
  /\ \E id \in DOMAIN users :
       users[id].cls = "Student" /\ Len(users[id].enrolled_courses) = 2
  /\ \E id \in DOMAIN users :
       users[id].cls = "Professor" /\ Len(users[id].courses) >= 1
  /\ \E id \in DOMAIN users : users[id].stay_logged_in
  /\ \E id \in DOMAIN users : ~users[id].stay_logged_in

\* C7: a user who logged in with "stay logged in" and has not logged out
\* since is in logged_in_users after a restart, and a login with that id
\* then returns that user before any password is asked for (whatever
\* password would have been typed), changing nothing.
C7_StayLoggedInSurvivesRestart ==
  [][/\ (ret'.op = "restart" /\ Restart)
          => \A id \in stay_logins : id \in DOMAIN logged_in_users'
     /\ ret'.op = "login" =>
        \A id \in stay_logins, password \in LoginPasswords, stay \in BOOLEAN :
          login(id, password, stay)
          => /\ ret'.out = "session"
             /\ menu_user' = id
             /\ users' = users
             /\ logged_in_users' = logged_in_users
             /\ file' = file]_vars

C7_Witness ==
  /\ ret.op = "login"
  /\ ret.out = "session"
  /\ menu_user \in stay_logins
  /\ users[menu_user].password # hash_password("")

\* C8: login returns a user in two cases only: the id is in logged_in_users
\* (that session's user, no password check, nothing changed), or the id is
\* registered and the password hashes to the stored hash; otherwise it
\* reports invalid credentials and leaves the registry with every
\* stay_logged_in flag, logged_in_users and the file unchanged.
LoginInputs == StudentIds \cup ProfessorIds \cup {UnknownId}
C8_LoginOutcomes ==
  [][ret'.op = "login" =>
     \A id \in LoginInputs, password \in LoginPasswords, stay \in BOOLEAN :
       login(id, password, stay)
       => IF id \in DOMAIN logged_in_users
          THEN /\ ret'.out = "session"
               /\ menu_user' = logged_in_users[id]
               /\ pc' # "main"
               /\ users' = users
               /\ logged_in_users' = logged_in_users
               /\ file' = file
          ELSE IF id \in DOMAIN users
                  /\ hash_password(password) = users[id].password
          THEN /\ ret'.out = "ok"
               /\ menu_user' = id
               /\ pc' # "main"
          ELSE /\ ret'.out = "InvalidCredentials"
               /\ menu_user' = NoUser
               /\ pc' = "main"
               /\ users' = users
               /\ logged_in_users' = logged_in_users
               /\ file' = file]_vars

C8_Witness ==
  /\ ret.op = "login"
  /\ ret.out = "InvalidCredentials"
  /\ DOMAIN users # {}
  /\ DOMAIN logged_in_users # {}

\* C9: view_student_grades shows "not yet available" (Hidden) for every
\* enrolled course whose is_grades_visible flag is false, whatever grades
\* are stored; for a course whose flag is true it shows exactly the scores
\* stored for the student in that course, and a total that is their sum.
RECURSIVE SumOver(_, _)
SumOver(scores, comps) ==
  IF comps = {} THEN 0
  ELSE LET comp == CHOOSE x \in comps : TRUE
       IN scores[comp] + SumOver(scores, comps \ {comp})
StoredScores(c, sid) ==
  IF sid \in DOMAIN courses[c].student_grades
  THEN courses[c].student_grades[sid]
  ELSE EmptyMap
C9_ViewGradesHiddenOrExact ==
  ret.op = "view" =>
    LET mine == users[menu_user].enrolled_courses
    IN /\ Len(ret.view) = Len(mine)
       /\ \A i \in 1..Len(mine) :
            mine[i] \in DOMAIN courses =>
              IF courses[mine[i]].is_grades_visible
              THEN /\ ret.view[i].kind = "grades"
                   /\ ret.view[i].scores = StoredScores(mine[i], menu_user)
                   /\ ret.view[i].total =
                        SumOver(ret.view[i].scores, DOMAIN ret.view[i].scores)
              ELSE ret.view[i].kind = "Hidden"

C9_Witness ==
  /\ ret.op = "view"
  /\ \E i \in 1..Len(ret.view) :
       ret.view[i].kind = "grades" /\ ret.view[i].total = 2

\* C10: create_course with a capacity that is no positive integer (zero,
\* negative or not a number) reports invalid input, adds no course, leaves
\* the professor's course list unchanged and writes nothing.
C10_NonPositiveCapacityRejected ==
  [][\A name \in CourseNames, capacity_input \in CapacityInputs :
       (/\ ret'.op = "create_course"
        /\ create_course(name, capacity_input)
        /\ ~(IsNumeric(capacity_input) /\ capacity_input[1] >= 1))
       => /\ ret'.out = "InvalidInput"
          /\ courses' = courses
          /\ users' = users
          /\ file' = file]_vars

\* C11: manage_grades, view_class_statistics and export_grades end with an
\* outcome for every course id entered, in every reachable state, states
\* after a restart included: none of them raises an error that nothing
\* catches and that ends the process.
C11_ProfessorOperationsNeverRaise ==
  ret.op \in {"manage_grades", "view_class_statistics", "export_grades"}
    => ret.out # "KeyError" /\ pc # "crashed"

\* C12: logout of a registered user leaves that user's stay_logged_in flag
\* false and the user out of logged_in_users, and a second logout of the same
\* user right after it changes neither the registry, nor the sessions, nor
\* the file.
C12_LogoutClearsAndIsIdempotent ==
  [][(ret'.op = "logout" /\ logout /\ menu_user \in DOMAIN users)
       => LET after == [users |-> users',
                        logged_in_users |-> logged_in_users',
                        file |-> file']
          IN /\ ~users'[menu_user].stay_logged_in
             /\ menu_user \notin DOMAIN logged_in_users'
             /\ logout_effect(after, menu_user) = after]_vars

\* A user has logged out while another user is still in logged_in_users.
C12_Witness ==
  /\ ret.op = "logout"
  /\ \E id \in DOMAIN users : ~users[id].stay_logged_in
  /\ DOMAIN logged_in_users # {}

\* C13: register_user with a user type that is neither "1" (student) nor
\* "2" (professor) reports invalid input, adds no user, leaves the sessions
\* unchanged and writes nothing.
C13_InvalidRoleRegistersNothing ==
  [][ret'.op = "register" =>
       \A user_type \in UserTypes \ {"1", "2"}, name \in Names, email \in Emails,
          password \in Passwords, phone \in Phones :
         register_user(user_type, name, email, password, phone)
         => /\ ret'.out = "InvalidInput"
            /\ users' = users
            /\ logged_in_users' = logged_in_users
            /\ file' = file]_vars

\* An invalid user type has been rejected while users are registered and one
\* of them is in logged_in_users.
C13_Witness ==
  /\ ret = Ret("register", "InvalidInput")
  /\ DOMAIN users # {}
  /\ DOMAIN logged_in_users # {}

IsDigits(id) == \A i \in 1..Len(id) : id[i] \in 0..9

\* C14: every key of the registry is the id of the user stored under it; a
\* Student's id is 9 decimal digits beginning with 4, a Professor's id is 4
\* decimal digits beginning with 1; and the id a registration generates is
\* never the id of a user already registered, so registering adds one key
\* and leaves every earlier user as it was.
C14_IdsUniqueAndRoleTagged ==
  /\ [](\A uid \in DOMAIN users :
          /\ users[uid].id = uid
          /\ IsDigits(uid)
          /\ users[uid].cls = "Student" => Len(uid) = 9 /\ uid[1] = 4
          /\ users[uid].cls = "Professor" => Len(uid) = 4 /\ uid[1] = 1)
  /\ [][ret' = Ret("register", "ok") =>
         /\ \E user_id \in (DOMAIN users') \ (DOMAIN users) :
              DOMAIN users' = (DOMAIN users) \cup {user_id}
         /\ \A uid \in DOMAIN users : users'[uid] = users[uid]]_vars

\* A student has been registered while a student and a professor were
\* registered already.
C14_Witness ==
  /\ ret = Ret("register", "ok")
  /\ \A uid \in StudentIds : uid \in DOMAIN users
  /\ \E uid \in DOMAIN users : users[uid].cls = "Professor"

Generating ==
  pc \in {"generate_student_id", "generate_professor_id", "generate_course_id"}
\* The loop has returned and its caller has finished.
Returned == ret \in { Ret("register", "ok"), Ret("create_course", "ok") }
\* The ids of the running loop's range that are not in use.
UnusedIds ==
  IF pc = "generate_student_id" THEN generate_student_id
  ELSE IF pc = "generate_professor_id" THEN generate_professor_id
  ELSE generate_course_id

\* C15: whenever one of the retry loops of generate_student_id,
\* generate_professor_id and create_course runs, it returns at some later
\* time (with fair draws) unless the process is ended first, so that
\* register_user and create_course terminate.
C15_IdGenerationTerminates == Generating ~> (Returned \/ ret.op = "restart")

\* C15, amended: whenever one of the three retry loops runs while at least
\* one id of its range is unused, the loop returns at some later time (with
\* fair draws) unless the process is ended first, and a loop that returns
\* has returned an id that was not in use.
C15_IdGenerationTerminatesWhileIdsRemain ==
  /\ (Generating /\ UnusedIds # {}) ~> (Returned \/ ret.op = "restart")
  /\ [][(Generating /\ Returned') =>
         IF pc = "generate_course_id"
         THEN (DOMAIN courses') \ (DOMAIN courses) # {}
         ELSE (DOMAIN users') \ (DOMAIN users) # {}]_vars

\* A loop has drawn an id in use while another id of its range is unused.
C15_Witness ==
  /\ Generating
  /\ ret.out = "collision"
  /\ UnusedIds # {}

\* The other successful step of manage_grades, "Toggle grade visibility".
ToggledVisibility(course_id) ==
  /\ courses' = [courses EXCEPT ![course_id].is_grades_visible = ~@]
  /\ users' = users

\* C16: entering a grade ("Enter grades" of manage_grades) stores a score
\* only for a declared component of an enrolled student; a numeric answer
\* overwrites exactly the score it was asked for, a non-numeric answer leaves
\* the stored score as it was, and the step changes no other score of any
\* student, no enrolled list, no capacity and no visibility flag.
\* Every successful step of manage_grades is either that entry of grades or
\* the toggle of one course's visibility flag.
C16_SetGradeOverwritesOneScore ==
  /\ [](pc = "professor_menu" =>
          \A c \in DOMAIN courses :
            LET grades == courses[c].student_grades
                students == courses[c].students
                n == Len(students)
            IN /\ EnterGrades(grades, students, AllAnswer(n, NonNumeric), 1) = grades
               /\ \A i \in 1..n, k \in ScriptedComponents, v \in GradeValues :
                    EnterGrades(grades, students, OneAnswer(n, i, k, Num(v)), 1)
                      = [grades EXCEPT ![students[i]][grade_components[k]] = v])
  /\ [][ret' = Ret("manage_grades", "ok") =>
         \E course_id \in DOMAIN courses :
           \/ ToggledVisibility(course_id)
           \/ /\ users' = users
              /\ DOMAIN courses' = DOMAIN courses
              /\ \A c \in DOMAIN courses :
                   courses'[c] = [courses[c] EXCEPT
                                    !.student_grades = courses'[c].student_grades]
              /\ \A c \in (DOMAIN courses) \ {course_id} : courses'[c] = courses[c]
              /\ \A sid \in DOMAIN courses'[course_id].student_grades :
                   /\ sid \in StudentsOf(courses[course_id])
                   /\ DOMAIN courses'[course_id].student_grades[sid] = ComponentNames
              /\ Cardinality(
                   { cell \in (DOMAIN courses[course_id].student_grades)
                                \X ComponentNames :
                       courses'[course_id].student_grades[cell[1]][cell[2]]
                         # courses[course_id].student_grades[cell[1]][cell[2]] })
                   <= 1]_vars

\* Grades have been entered in a course with two graded students: one score
\* of one student is 1, every other score of both students is still 0.
C16_Witness ==
  /\ ret = Ret("manage_grades", "ok")
  /\ \E c \in DOMAIN courses :
       /\ \A sid \in StudentIds : sid \in DOMAIN courses[c].student_grades
       /\ Cardinality(
            { cell \in StudentIds \X ComponentNames :
                courses[c].student_grades[cell[1]][cell[2]] = 1 }) = 1

\* C17: in every reachable state logged_in_users holds exactly the
\* registered users whose stay_logged_in flag is true, and the entry under an
\* id is the user object the registry holds under that id.
C17_SessionsAreTheStayLoggedInUsers ==
  /\ DOMAIN logged_in_users = { id \in DOMAIN users : users[id].stay_logged_in }
  /\ \A id \in DOMAIN logged_in_users : logged_in_users[id] = id

\* After a restart one user is in logged_in_users and another user, who
\* logged out before, is not.
C17_Witness ==
  /\ ret.op = "restart"
  /\ DOMAIN logged_in_users # {}
  /\ \E id \in DOMAIN users : id \notin DOMAIN logged_in_users

\* C18: in every reachable state, for every student s and every course c of
\* the course store, c's id is in s.enrolled_courses if and only if s is in
\* c.students, and then s has a grade record in c.
C18_EnrollmentConsistentBothWays ==
  \A sid \in DOMAIN users, c \in DOMAIN courses :
    users[sid].cls = "Student" =>
      /\ (\E i \in 1..Len(users[sid].enrolled_courses) :
            users[sid].enrolled_courses[i] = c)
           <=> sid \in StudentsOf(courses[c])
      /\ sid \in StudentsOf(courses[c]) => sid \in DOMAIN courses[c].student_grades

\* C19: in every reachable state every course id of a professor's courses
\* list that is a key of the course store names a course whose professor is
\* that professor, so that manage_grades lets only the creator of a course
\* enter its grades or toggle its visibility.
C19_OwnedCoursesBelongToOwner ==
  \A pid \in DOMAIN users :
    users[pid].cls = "Professor" =>
      \A i \in 1..Len(users[pid].courses) :
        users[pid].courses[i] \in DOMAIN courses
          => courses[users[pid].courses[i]].professor = pid

\* C20: enroll never alters a score already recorded: an enroll step, by
\* the same or another student, successful or not, leaves the scores of
\* every student who has a grade record in a course as they were; the scores
\* of a record change in steps of manage_grades only.
C20_EnrollKeepsRecordedScores ==
  [][\A c \in DOMAIN courses : \A sid \in DOMAIN courses[c].student_grades :
       /\ ret'.op = "enroll" =>
            /\ c \in DOMAIN courses'
            /\ sid \in DOMAIN courses'[c].student_grades
            /\ courses'[c].student_grades[sid] = courses[c].student_grades[sid]
       /\ (/\ c \in DOMAIN courses'
           /\ sid \in DOMAIN courses'[c].student_grades
           /\ courses'[c].student_grades[sid] # courses[c].student_grades[sid])
          => ret'.op = "manage_grades"]_vars

\* The ids the generators yield in Spec: both student ids, one professor id.
RegistryIds == StudentIds \cup { <<1, 0, 0, 0>> }

\* Registration with the generated ids drawn from ids.
Register(ids) ==
  \E user_type \in UserTypes, name \in Names, email \in Emails,
     password \in Passwords, phone \in Phones :
    /\ register_user(user_type, name, email, password, phone)
    /\ DOMAIN users' \subseteq ids

\* The other choices of the menus of main() that change the state of the
\* system, and the end of the process.
MenuOps ==
  \/ \E id \in StudentIds \cup ProfessorIds \cup {UnknownId},
        password \in LoginPasswords, stay_logged_in \in BOOLEAN :
       login(id, password, stay_logged_in)
  \/ logout
  \/ \E course_id \in CourseIds \cup {UnknownId} : enroll(course_id)
  \/ ViewGrades
  \/ \E name \in CourseNames, capacity_input \in CapacityInputs :
       create_course(name, capacity_input)
  \/ \E course_id \in CourseIds \cup {UnknownId}, choice \in {"1", "2", "3"} :
       manage_grades(course_id, choice)
  \/ Restart

Next == Register(RegistryIds) \/ MenuOps

\* The two reports of professor_menu, which read the course store and change
\* nothing.
Reports ==
  \/ \E course_id \in CourseIds \cup {UnknownId} : view_class_statistics(course_id)
  \/ \E course_id \in CourseIds \cup {UnknownId} : export_grades(course_id)

NextReports == Next \/ Reports

Spec == Init /\ [][Next]_vars

\* The system with one student id and both professor ids.
TwoProfessorRegistryIds == { <<4, 0, 0, 0, 0, 0, 0, 0, 0>> } \cup ProfessorIds
NextTwoProfessors == Register(TwoProfessorRegistryIds) \/ MenuOps
SpecTwoProfessors == Init /\ [][NextTwoProfessors]_vars

\* Spec with the reports of professor_menu.
SpecReports == Init /\ [][NextReports]_vars
====
